---- MODULE Spec2Model ----
(***************************************************************************)
(* rustygitprompt, src/main.rs: a prompt helper that prints the branch     *)
(* token and the status token of the git repository around the current     *)
(* directory.                                                              *)
(*                                                                         *)
(* Text is a sequence of cells [ch, fg]: ch is one character, fg the       *)
(* colour the colored crate wraps it in ("none" for plain text).  A        *)
(* character outside ASCII is written by its code point, "U+2261".         *)
(* An Option is a sequence of length at most one: None is <<>> and         *)
(* Some(v) is <<v>>.                                                       *)
(***************************************************************************)
EXTENDS Integers, Sequences, FiniteSets

VARIABLES
    pc,          \* where main is
    stdout,      \* the strings written by print!, in order
    stderr,      \* the diagnostic of the panic or of main's Err, if any
    exit,        \* Option: the exit code of the process
    discover,    \* what env::current_dir / Repository::discover answered
    invoked,     \* the analyzers main has called so far
    head,        \* Option: what repository.head() answered
    name,        \* branch(): the local `name`
    branch_name, \* branch(): the local `branch_name`
    local,       \* branch(): the local `local`
    git,         \* branch(): what each comparator call answered
    branch,      \* Option: the BranchStatus r.branch() returned
    remaining,   \* status(): entries the iterator has not yielded yet
    entry,       \* status(): the flags of the entry of the last iteration
    result,      \* status(): the RepoStatus under construction
    flagged,     \* entries seen so far that carry one of the eight flags
    status       \* Option: what r.status() returned, [ok, val]

vars == <<pc, stdout, stderr, exit, discover, invoked, head, name, branch_name,
          local, git, branch, remaining, entry, result, flagged, status>>

(***************************************************************************)
(* Bounds of the model.                                                    *)
(***************************************************************************)
\* ahead/behind counts the commit graph answers in the whole-program model
MaxAhead == 2
\* ahead/behind counts given to the renderers alone (two digits are reached)
MaxCount == 10
\* entries of one status scan
MaxEntries == 3

(***************************************************************************)
(* Options and text.                                                       *)
(***************************************************************************)
None == <<>>
Some(v) == <<v>>
IsSome(o) == Len(o) = 1
Unwrap(o) == o[1]

\* text.color(): every character of the text carries the colour
Styled(text, colour) == [i \in 1..Len(text) |-> [ch |-> text[i], fg |-> colour]]
\* a string literal, unstyled
Str(text) == Styled(text, "none")
\* the characters of a text, colour styling ignored
Plain(t) == [i \in 1..Len(t) |-> t[i].ch]

DigitChar == <<"0", "1", "2", "3", "4", "5", "6", "7", "8", "9">>

\* format!("{}", n) of a usize: its decimal digits, most significant first
RECURSIVE Digits(_)
Digits(n) == IF n < 10 THEN <<DigitChar[n + 1]>>
             ELSE Digits(n \div 10) \o <<DigitChar[(n % 10) + 1]>>
Display(n) == Str(Digits(n))

\* the texts of the program
Detached == <<"d", "e", "t", "a", "c", "h", "e", "d">>
RefsHeads == <<"r", "e", "f", "s", "/", "h", "e", "a", "d", "s", "/">>
MasterRef == RefsHeads \o <<"m", "a", "s", "t", "e", "r">>
FeatureRef == RefsHeads \o <<"f", "e", "a", "t", "u", "r", "e">>
HeadRef == <<"H", "E", "A", "D">>
MasterGlyph == <<"U+1F17C">>

(***************************************************************************)
(* BranchStatus and its rendering.                                         *)
(***************************************************************************)
BranchStatus(n, l, u) == [name |-> n, local |-> l, upstream |-> u]

\* Upstream with ahead and behind exchanged: the variant C7 must tell apart
UpstreamSwapped(b) ==
    IF ~IsSome(b.upstream) THEN Some(Styled(<<"U+26A1">>, "red"))
    ELSE LET a1 == Unwrap(b.upstream)[1]
             b1 == Unwrap(b.upstream)[2]
         IN  IF a1 > 0 /\ b1 > 0
                 THEN Some(Styled(<<"U+21F5">>, "yellow") \o Display(b1) \o Display(a1))
             ELSE IF a1 > 0 /\ b1 = 0
                 THEN Some(Styled(<<"U+2191">>, "green") \o Display(a1))
             ELSE IF a1 = 0 /\ b1 > 0
                 THEN Some(Styled(<<"U+2193">>, "red") \o Display(b1))
             ELSE IF a1 = 0 /\ b1 = 0
                 THEN Some(Str(<<"U+2261">>))
             ELSE Some(Styled(<<"U+26A1">>, "red"))

\* BranchStatus::upstream
Upstream(b) ==
    IF ~IsSome(b.upstream) THEN Some(Styled(<<"U+26A1">>, "red"))
    ELSE LET a1 == Unwrap(b.upstream)[1]
             b1 == Unwrap(b.upstream)[2]
         IN  IF a1 > 0 /\ b1 > 0
                 THEN Some(Styled(<<"U+21F5">>, "yellow") \o Display(a1) \o Display(b1))
             ELSE IF a1 > 0 /\ b1 = 0
                 THEN Some(Styled(<<"U+2193">>, "red") \o Display(a1))
             ELSE IF a1 = 0 /\ b1 > 0
                 THEN Some(Styled(<<"U+2191">>, "green") \o Display(b1))
             ELSE IF a1 = 0 /\ b1 = 0
                 THEN Some(Str(<<"U+2261">>))
             ELSE Some(Styled(<<"U+26A1">>, "red"))

\* Local without the leading m: the variant C5 must tell apart
LocalNoPrefix(b) ==
    IF ~IsSome(b.local) THEN Some(Styled(<<"U+29B0">>, "red"))
    ELSE LET a1 == Unwrap(b.local)[1]
             b1 == Unwrap(b.local)[2]
         IN  IF a1 > 0 /\ b1 > 0
                 THEN Some(Styled(<<"U+2194">>, "magenta") \o Display(a1) \o Display(b1))
             ELSE IF a1 > 0 /\ b1 = 0
                 THEN Some(Styled(<<"U+2190">>, "magenta") \o Display(a1))
             ELSE IF a1 = 0 /\ b1 > 0
                 THEN Some(Styled(<<"U+2192">>, "magenta") \o Display(b1))
             ELSE Some(Styled(<<"U+29B0">>, "red"))

\* BranchStatus::local
Local(b) ==
    IF ~IsSome(b.local) THEN Some(Styled(<<"U+29B0">>, "red"))
    ELSE LET a1 == Unwrap(b.local)[1]
             b1 == Unwrap(b.local)[2]
         IN  IF a1 > 0 /\ b1 > 0
                 THEN Some(Str(<<"m">>) \o Styled(<<"U+2194">>, "magenta")
                           \o Display(a1) \o Display(b1))
             ELSE IF a1 > 0 /\ b1 = 0
                 THEN Some(Str(<<"m">>) \o Styled(<<"U+2190">>, "magenta") \o Display(a1))
             ELSE IF a1 = 0 /\ b1 > 0
                 THEN Some(Str(<<"m">>) \o Styled(<<"U+2192">>, "magenta") \o Display(b1))
             ELSE Some(Styled(<<"U+29B0">>, "red"))

\* Option<String>::unwrap_or("".to_string())
UnwrapOrEmpty(o) == IF IsSome(o) THEN Unwrap(o) ELSE <<>>

\* to_string without the local token: the variant C1 must tell apart
BranchToStringNoLocal(b) == Str(b.name) \o UnwrapOrEmpty(Upstream(b))

\* BranchStatus::to_string
BranchToString(b) ==
    Str(b.name) \o UnwrapOrEmpty(Local(b)) \o UnwrapOrEmpty(Upstream(b))

(***************************************************************************)
(* RepoStatus, the classification of one entry, and the rendering.         *)
(***************************************************************************)
\* the flags of git2::Status the scan looks at, and one it does not
StatusFlags == {"INDEX_MODIFIED", "WT_MODIFIED", "INDEX_NEW", "WT_NEW",
                "INDEX_RENAMED", "WT_RENAMED", "INDEX_DELETED", "WT_DELETED"}
OtherFlags == {"CONFLICTED"}

Counters == {"modifications_staged", "modifications", "new_files", "untracked",
             "renames_staged", "renames", "deletions_staged", "deletions"}

\* the RepoStatus literal of status(): every counter None
EmptyRepoStatus == [c \in Counters |-> None]

\* counter.replace(counter.unwrap_or(0) + 1)
Bump(r, c) == [r EXCEPT ![c] = Some((IF IsSome(r[c]) THEN Unwrap(r[c]) ELSE 0) + 1)]

\* Count with the first two arms of the match exchanged: the variant C4 must
\* tell apart
CountWorktreeFirst(r, s) ==
    IF "WT_MODIFIED" \in s THEN Bump(r, "modifications")
    ELSE IF "INDEX_MODIFIED" \in s THEN Bump(r, "modifications_staged")
    ELSE IF "INDEX_NEW" \in s THEN Bump(r, "new_files")
    ELSE IF "WT_NEW" \in s THEN Bump(r, "untracked")
    ELSE IF "INDEX_RENAMED" \in s THEN Bump(r, "renames_staged")
    ELSE IF "WT_RENAMED" \in s THEN Bump(r, "renames")
    ELSE IF "INDEX_DELETED" \in s THEN Bump(r, "deletions_staged")
    ELSE IF "WT_DELETED" \in s THEN Bump(r, "deletions")
    ELSE r

\* one iteration of the loop of status(): the match on entry.status()
Count(r, s) ==
    IF "INDEX_MODIFIED" \in s THEN Bump(r, "modifications_staged")
    ELSE IF "WT_MODIFIED" \in s THEN Bump(r, "modifications")
    ELSE IF "INDEX_NEW" \in s THEN Bump(r, "new_files")
    ELSE IF "WT_NEW" \in s THEN Bump(r, "untracked")
    ELSE IF "INDEX_RENAMED" \in s THEN Bump(r, "renames_staged")
    ELSE IF "WT_RENAMED" \in s THEN Bump(r, "renames")
    ELSE IF "INDEX_DELETED" \in s THEN Bump(r, "deletions_staged")
    ELSE IF "WT_DELETED" \in s THEN Bump(r, "deletions")
    ELSE r

\* counter.map(|i| format!("{}{}", i, letter.colour())).unwrap_or("")
Token(o, letter, colour) ==
    IF IsSome(o) THEN Display(Unwrap(o)) \o Styled(<<letter>>, colour) ELSE <<>>

\* to_string emitting in the order of the scan's match: the variant C8 must
\* tell apart
RepoStatusToStringScanOrder(r) ==
    Token(r["modifications_staged"], "M", "green")
    \o Token(r["modifications"], "M", "red")
    \o Token(r["new_files"], "N", "green")
    \o Token(r["untracked"], "U", "blue")
    \o Token(r["renames_staged"], "R", "green")
    \o Token(r["renames"], "R", "red")
    \o Token(r["deletions_staged"], "D", "green")
    \o Token(r["deletions"], "D", "red")

\* RepoStatus::to_string
RepoStatusToString(r) ==
    Token(r["new_files"], "N", "green")
    \o Token(r["modifications_staged"], "M", "green")
    \o Token(r["renames_staged"], "R", "green")
    \o Token(r["deletions_staged"], "D", "green")
    \o Token(r["modifications"], "M", "red")
    \o Token(r["renames"], "R", "red")
    \o Token(r["deletions"], "D", "red")
    \o Token(r["untracked"], "U", "blue")

(***************************************************************************)
(* What the repository can answer.                                         *)
(***************************************************************************)
\* repository.head(): an error of some class, or the resolved reference,
\* given by its name() (None when the name is not valid UTF-8)
HeadErrors == {"UnbornBranch", "NotFound", "Other"}
HeadOutcomes ==
    {[ok |-> FALSE, code |-> c, name |-> None] : c \in HeadErrors}
    \cup {[ok |-> TRUE, code |-> "Ok", name |-> n] :
            n \in {Some(MasterRef), Some(FeatureRef), Some(HeadRef), None}}

\* graph_ahead_behind(head, other).ok(): None for Err, or Some((ahead, behind)).
\* HEAD on the branch it is compared with has nothing ahead and nothing behind.
GraphOutcomes(same, max) ==
    {None} \cup {Some(p) : p \in IF same THEN {<<0, 0>>} ELSE (0..max) \X (0..max)}

Unasked == [c \in {"find_branch", "master_target", "local_graph", "upstream_name",
                   "upstream_str", "refname_to_id", "upstream_graph"} |-> "unasked"]

\* the flag sets the status scan of the whole-program model meets
SampleStatuses == {{"INDEX_NEW"}, {"WT_NEW"}, {"INDEX_MODIFIED", "WT_MODIFIED"},
                   {"CONFLICTED"}}
\* every combination of the eight flags, and an entry with a flag of no bucket
AllStatuses == (SUBSET StatusFlags) \cup {OtherFlags}

(***************************************************************************)
(* The program.                                                            *)
(***************************************************************************)
Init ==
    /\ pc = "main"
    /\ stdout = <<>>
    /\ stderr = None
    /\ exit = None
    /\ discover = "unasked"
    /\ invoked = {}
    /\ head = None
    /\ name = None
    /\ branch_name = None
    /\ local = None
    /\ git = Unasked
    /\ branch = None
    /\ remaining = 0
    /\ entry = None
    /\ result = EmptyRepoStatus
    /\ flagged = 0
    /\ status = None

\* panic!(..) or unwrap() on None/Err: the process aborts with code 101
Panic(msg) ==
    /\ pc' = "aborted"
    /\ stderr' = Some(msg)
    /\ exit' = Some(101)

\* Discover treating a discovery failure as fatal: the variant C9 must tell apart
DiscoverPanics ==
    /\ pc = "main"
    /\ \E d \in {"cwd_err", "not_found", "error", "found"} :
        /\ discover' = d
        /\ IF d = "cwd_err"
             THEN /\ pc' = "exited"
                  /\ stderr' = Some("Error: current_dir")
                  /\ exit' = Some(1)
           ELSE IF d = "found"
             THEN /\ pc' = "branch"
                  /\ UNCHANGED <<stderr, exit>>
           ELSE Panic("failed to discover repository")
    /\ UNCHANGED <<stdout, invoked, head, name, branch_name, local, git, branch,
                   remaining, entry, result, flagged, status>>

\* main, lines 6-11: env::current_dir()?, then Repository::discover
Discover ==
    /\ pc = "main"
    /\ \E d \in {"cwd_err", "not_found", "error", "found"} :
        /\ discover' = d
        /\ IF d = "cwd_err"
             THEN /\ pc' = "exited"
                  /\ stderr' = Some("Error: current_dir")
                  /\ exit' = Some(1)
           ELSE IF d = "found"
             THEN /\ pc' = "branch"
                  /\ UNCHANGED <<stderr, exit>>
           ELSE /\ pc' = "exited"
                /\ exit' = Some(0)
                /\ UNCHANGED stderr
    /\ UNCHANGED <<stdout, invoked, head, name, branch_name, local, git, branch,
                   remaining, entry, result, flagged, status>>

\* branch(), lines 69-76: the call of r.branch() and its match on head()
BranchHead ==
    /\ pc = "branch"
    /\ invoked' = invoked \cup {"branch"}
    /\ \E h \in HeadOutcomes :
        /\ head' = Some(h)
        /\ IF h.ok
             THEN /\ pc' = "name"
                  /\ UNCHANGED branch
             ELSE /\ pc' = "print_branch"
                  /\ branch' = Some(BranchStatus(Detached, None, None))
    /\ UNCHANGED <<stdout, stderr, exit, discover, name, branch_name, local, git,
                   remaining, entry, result, flagged, status>>

\* branch(), lines 77-82: head.name().unwrap() and the mainline glyph
BranchName ==
    /\ pc = "name"
    /\ LET n == Unwrap(head).name IN
        IF ~IsSome(n)
          THEN /\ Panic("unwrap on None: head.name()")
               /\ UNCHANGED <<name, branch_name>>
          ELSE /\ branch_name' = n
               /\ name' = IF Unwrap(n) = MasterRef THEN Some(MasterGlyph) ELSE n
               /\ pc' = "local"
               /\ UNCHANGED <<stderr, exit>>
    /\ UNCHANGED <<stdout, discover, invoked, head, local, git, branch,
                   remaining, entry, result, flagged, status>>

\* branch(), lines 84-91: find_branch("master").and_then(graph_ahead_behind).ok()
\* head() answers a resolved reference, so head.target() is Some; the branch
\* master has no target when refs/heads/master is itself a symbolic ref, which
\* it is not when HEAD resolved to it.
BranchLocal ==
    /\ pc = "local"
    /\ LET onMaster == Unwrap(branch_name) = MasterRef IN
       \/ /\ git' = [git EXCEPT !.find_branch = "err"]
          /\ local' = None
          /\ pc' = "upstream"
          /\ UNCHANGED <<stderr, exit>>
       \/ /\ ~onMaster
          /\ git' = [git EXCEPT !.find_branch = "ok", !.master_target = "none"]
          /\ Panic("unwrap on None: master.get().target()")
          /\ UNCHANGED local
       \/ \E g \in GraphOutcomes(onMaster, MaxAhead) :
            /\ git' = [git EXCEPT !.find_branch = "ok", !.master_target = "some",
                                  !.local_graph = IF IsSome(g) THEN "ok" ELSE "err"]
            /\ local' = g
            /\ pc' = "upstream"
            /\ UNCHANGED <<stderr, exit>>
    /\ UNCHANGED <<stdout, discover, invoked, head, name, branch_name, branch,
                   remaining, entry, result, flagged, status>>

\* what lines 93-104 leave in `upstream`, or the panic of the unwrap of line 102
UpstreamOutcomes(isBranch) ==
    {[git |-> [upstream_name |-> "err", upstream_str |-> "unasked",
               refname_to_id |-> "unasked", upstream_graph |-> "unasked"],
      val |-> None, panic |-> FALSE]}
    \cup (IF ~isBranch THEN {} ELSE
      {[git |-> [upstream_name |-> "ok", upstream_str |-> "none",
                 refname_to_id |-> "unasked", upstream_graph |-> "unasked"],
        val |-> None, panic |-> FALSE],
       [git |-> [upstream_name |-> "ok", upstream_str |-> "some",
                 refname_to_id |-> "err", upstream_graph |-> "unasked"],
        val |-> None, panic |-> TRUE]}
      \cup {[git |-> [upstream_name |-> "ok", upstream_str |-> "some",
                      refname_to_id |-> "ok",
                      upstream_graph |-> IF IsSome(g) THEN "ok" ELSE "err"],
             val |-> g, panic |-> FALSE] :
              g \in GraphOutcomes(FALSE, MaxAhead)})

\* branch(), lines 93-110: the upstream comparison and the returned BranchStatus.
\* branch_upstream_name answers Err for "HEAD", which is no local branch.
BranchUpstream ==
    /\ pc = "upstream"
    /\ \E u \in UpstreamOutcomes(Unwrap(branch_name) # HeadRef) :
        /\ git' = [c \in DOMAIN git |->
                     IF c \in DOMAIN u.git THEN u.git[c] ELSE git[c]]
        /\ IF u.panic
             THEN /\ Panic("unwrap on Err: refname_to_id")
                  /\ UNCHANGED branch
             ELSE /\ branch' = Some(BranchStatus(Unwrap(name), local, u.val))
                  /\ pc' = "print_branch"
                  /\ UNCHANGED <<stderr, exit>>
    /\ UNCHANGED <<stdout, discover, invoked, head, name, branch_name, local,
                   remaining, entry, result, flagged, status>>

\* PrintBranch holding the branch token back instead of writing it: the variant
\* C10 must tell apart
PrintBranchBuffered ==
    /\ pc = "print_branch"
    /\ pc' = "status"
    /\ UNCHANGED <<stdout, stderr, exit, discover, invoked, head, name, branch_name,
                   local, git, branch, remaining, entry, result, flagged, status>>

\* main, lines 13-16: branch() only ever returns Ok, so the Ok arm prints
PrintBranch ==
    /\ pc = "print_branch"
    /\ stdout' = Append(stdout, BranchToString(Unwrap(branch)))
    /\ pc' = "status"
    /\ UNCHANGED <<stderr, exit, discover, invoked, head, name, branch_name,
                   local, git, branch, remaining, entry, result, flagged, status>>

\* status(), lines 31-46: the call of r.status(), the query and the empty result
StatusQuery ==
    /\ pc = "status"
    /\ invoked' = invoked \cup {"status"}
    /\ \/ /\ status' = Some([ok |-> FALSE, val |-> EmptyRepoStatus])
          /\ pc' = "print_status"
          /\ UNCHANGED <<remaining, result>>
       \/ \E n \in 0..MaxEntries :
            /\ remaining' = n
            /\ result' = EmptyRepoStatus
            /\ pc' = "scan"
            /\ UNCHANGED status
    /\ UNCHANGED <<stdout, stderr, exit, discover, head, name, branch_name, local,
                   git, branch, entry, flagged>>

\* status(), lines 48-63: one iteration of the loop, over an entry with flags in U
ScanEntry(U) ==
    /\ pc = "scan"
    /\ remaining > 0
    /\ \E s \in U :
        /\ entry' = Some(s)
        /\ result' = Count(result, s)
        /\ flagged' = IF s \cap StatusFlags # {} THEN flagged + 1 ELSE flagged
    /\ remaining' = remaining - 1
    /\ UNCHANGED <<pc, stdout, stderr, exit, discover, invoked, head, name,
                   branch_name, local, git, branch, status>>

\* status(), line 65: the iterator is exhausted, Ok(result)
ScanDone ==
    /\ pc = "scan"
    /\ remaining = 0
    /\ status' = Some([ok |-> TRUE, val |-> result])
    /\ pc' = "print_status"
    /\ UNCHANGED <<stdout, stderr, exit, discover, invoked, head, name, branch_name,
                   local, git, branch, remaining, entry, result, flagged>>

\* main, lines 18-23: print the status, or panic on Err; then Ok(())
PrintStatus ==
    /\ pc = "print_status"
    /\ IF ~Unwrap(status).ok
         THEN /\ Panic("failed to get status")
              /\ UNCHANGED stdout
         ELSE /\ stdout' = Append(stdout, RepoStatusToString(Unwrap(status).val))
              /\ pc' = "exited"
              /\ exit' = Some(0)
              /\ UNCHANGED stderr
    /\ UNCHANGED <<discover, invoked, head, name, branch_name, local, git, branch,
                   remaining, entry, result, flagged, status>>

Next ==
    \/ Discover
    \/ BranchHead
    \/ BranchName
    \/ BranchLocal
    \/ BranchUpstream
    \/ PrintBranch
    \/ StatusQuery
    \/ ScanEntry(SampleStatuses)
    \/ ScanDone
    \/ PrintStatus

Spec == Init /\ [][Next]_vars

(***************************************************************************)
(* The renderers and the status analyzer on their own: the program from    *)
(* the point where r.branch() has returned, over wider inputs.             *)
(***************************************************************************)
\* the answers that make branch() return BranchStatus(.., l, u) on a branch
AnswersFor(l, u) ==
    [find_branch |-> "ok", master_target |-> "some",
     local_graph |-> IF IsSome(l) THEN "ok" ELSE "err",
     upstream_name |-> "ok", upstream_str |-> "some", refname_to_id |-> "ok",
     upstream_graph |-> IF IsSome(u) THEN "ok" ELSE "err"]

\* main at line 13 with r.branch() returned: HEAD is the branch `ref`, shown
\* as `shown`, and the comparisons gave l and u
BranchReturned(ref, shown, l, u) ==
    /\ pc = "print_branch"
    /\ stdout = <<>>
    /\ stderr = None
    /\ exit = None
    /\ discover = "found"
    /\ invoked = {"branch"}
    /\ head = Some([ok |-> TRUE, code |-> "Ok", name |-> Some(ref)])
    /\ name = Some(shown)
    /\ branch_name = Some(ref)
    /\ local = l
    /\ git = AnswersFor(l, u)
    /\ branch = Some(BranchStatus(shown, l, u))
    /\ remaining = 0
    /\ entry = None
    /\ result = EmptyRepoStatus
    /\ flagged = 0
    /\ status = None

InitRender ==
    \E l \in GraphOutcomes(FALSE, MaxCount), u \in GraphOutcomes(FALSE, MaxCount) :
        BranchReturned(FeatureRef, FeatureRef, l, u)

NextRender == PrintBranch

SpecRender == InitRender /\ [][NextRender]_vars

InitStatus == BranchReturned(MasterRef, MasterGlyph, Some(<<0, 0>>), Some(<<0, 0>>))

NextStatus ==
    \/ PrintBranch
    \/ StatusQuery
    \/ ScanEntry(AllStatuses)
    \/ ScanDone
    \/ PrintStatus

SpecStatus == InitStatus /\ [][NextStatus]_vars

(***************************************************************************)
(* The claims.                                                             *)
(***************************************************************************)
\* everything written to standard output, in order
RECURSIVE Flatten(_)
Flatten(ss) == IF ss = <<>> THEN <<>> ELSE Head(ss) \o Flatten(Tail(ss))
Output == Plain(Flatten(stdout))

HeadAnswer == Unwrap(head)
Returned == Unwrap(branch)
StatusFailed == IsSome(status) /\ ~Unwrap(status).ok
Value(o) == IF IsSome(o) THEN Unwrap(o) ELSE 0

\* C1's case: the program has finished on a clean repository whose HEAD is
\* refs/heads/master, with local (0,0) and upstream (0,0)
C1_Case ==
    /\ pc = "exited"
    /\ exit = Some(0)
    /\ discover = "found"
    /\ HeadAnswer.name = Some(MasterRef)
    /\ Returned.local = Some(<<0, 0>>)
    /\ Returned.upstream = Some(<<0, 0>>)
    /\ IsSome(status) /\ Unwrap(status).ok
    /\ entry = None

\* C1 as stated: on a clean repository with HEAD on refs/heads/master, local
\* (0,0) and upstream (0,0), the whole output is the mainline glyph followed
\* immediately by the in-sync symbol.
C1_Original == C1_Case => Output = <<"U+1F17C", "U+2261">>

\* C1 as amended: in that case the whole output is the mainline glyph, the
\* empty-local symbol and the in-sync symbol, and nothing else.
C1_CleanMainline == C1_Case => Output = <<"U+1F17C", "U+29B0", "U+2261">>

C1_Witness == C1_Case /\ Len(stdout) = 2

LocalStepFailed == "err" \in {git.find_branch, git.local_graph} \/ git.master_target = "none"
UpstreamStepFailed ==
    \/ "err" \in {git.upstream_name, git.refname_to_id, git.upstream_graph}
    \/ git.upstream_str = "none"

\* C2 as stated: once HEAD is resolved, whatever the comparator steps answer,
\* the branch analyzer does not abort; it returns a BranchStatus whose local is
\* absent if a local step failed and whose upstream is absent if an upstream
\* step failed.
C2_ComparatorsNeverAbort ==
    (IsSome(head) /\ HeadAnswer.ok /\ IsSome(branch_name)) =>
        /\ (pc = "aborted" => "status" \in invoked)
        /\ (IsSome(branch) =>
              /\ (LocalStepFailed => Returned.local = None)
              /\ (UpstreamStepFailed => Returned.upstream = None))

\* C3 as stated: a failure of the HEAD query other than no-HEAD / unborn branch
\* is fatal: no BranchStatus is returned for it and no branch token is printed.
C3_UnexpectedHeadFailureIsFatal ==
    (IsSome(head) /\ HeadAnswer.code = "Other") =>
        /\ branch = None
        /\ stdout = <<>>
        /\ exit # Some(0)

\* the classification precedence of the claim: flag, then its counter
Precedence == <<
    <<"INDEX_MODIFIED", "modifications_staged">>, <<"WT_MODIFIED", "modifications">>,
    <<"INDEX_NEW", "new_files">>, <<"WT_NEW", "untracked">>,
    <<"INDEX_RENAMED", "renames_staged">>, <<"WT_RENAMED", "renames">>,
    <<"INDEX_DELETED", "deletions_staged">>, <<"WT_DELETED", "deletions">> >>
FirstMatch(s) ==
    LET i == CHOOSE k \in 1..8 :
                 /\ Precedence[k][1] \in s
                 /\ \A j \in 1..(k - 1) : Precedence[j][1] \notin s
    IN  Precedence[i][2]
RECURSIVE SumOver(_, _)
SumOver(r, cs) ==
    IF cs = {} THEN 0
    ELSE LET c == CHOOSE x \in cs : TRUE IN Value(r[c]) + SumOver(r, cs \ {c})

C4_Iteration ==
    (pc = "scan" /\ remaining' = remaining - 1) =>
        LET s == Unwrap(entry') IN
        IF s \cap StatusFlags = {} THEN result' = result
        ELSE \A c \in Counters :
                result'[c] = IF c = FirstMatch(s) THEN Some(Value(result[c]) + 1)
                             ELSE result[c]

\* C4: every iteration of the scan over an entry with one of the eight flags adds
\* one to the counter of the first matching flag in the precedence order and
\* leaves the other seven alone, an entry with none changes nothing, and the
\* counters always sum to the number of entries seen that carry such a flag.
C4_FirstMatchClassification ==
    /\ [][C4_Iteration]_vars
    /\ [](SumOver(result, Counters) = flagged)
    /\ [](IsSome(status) /\ Unwrap(status).ok =>
            SumOver(Unwrap(status).val, Counters) = flagged)

C4_Witness ==
    /\ pc = "print_status"
    /\ entry = Some({"INDEX_MODIFIED", "WT_MODIFIED"})
    /\ flagged = 3
    /\ result["modifications_staged"] = Some(2)
    /\ result["modifications"] = None
    /\ result["deletions"] = Some(1)

\* the local token of the claim as stated, and as the code prints it
C5_StatedToken(l) ==
    IF ~IsSome(l) THEN <<"U+29B0">>
    ELSE IF l[1][1] > 0 /\ l[1][2] > 0
        THEN <<"U+2194">> \o Digits(l[1][1]) \o Digits(l[1][2])
    ELSE IF l[1][1] > 0 THEN <<"U+2190">> \o Digits(l[1][1])
    ELSE IF l[1][2] > 0 THEN <<"U+2192">> \o Digits(l[1][2])
    ELSE <<"U+29B0">>
C5_PrefixedToken(l) ==
    IF IsSome(l) /\ l[1] # <<0, 0>> THEN <<"m">> \o C5_StatedToken(l)
    ELSE C5_StatedToken(l)

Printed == pc = "status" /\ Len(stdout) = 1

\* C5 as stated: the printed branch string is the name, then the local token
\* (arrow and counts, or the empty-local symbol, and no other character), then
\* the upstream token.
C5_Original ==
    Printed => Plain(stdout[1]) = Returned.name \o C5_StatedToken(Returned.local)
                                  \o Plain(Unwrap(Upstream(Returned)))

\* C5 as amended: the local token is the letter m, then the arrow and the counts
\* when ahead or behind is positive, and the bare empty-local symbol when local
\* is (0,0) or absent.
C5_LocalToken ==
    Printed => Plain(stdout[1]) = Returned.name \o C5_PrefixedToken(Returned.local)
                                  \o Plain(Unwrap(Upstream(Returned)))

C5_Witness == Printed /\ Returned.local = Some(<<10, 3>>)

\* C6 as stated: whenever HEAD is not a symbolic ref to a branch (no HEAD, an
\* unborn branch, or a detached HEAD whose reference name is "HEAD"), the label
\* of the returned BranchStatus is "detached" and the raw name is not printed.
C6_DetachedLabel ==
    (/\ IsSome(head)
     /\ \/ HeadAnswer.code \in {"UnbornBranch", "NotFound"}
        \/ HeadAnswer.name = Some(HeadRef)
     /\ IsSome(branch)) =>
        /\ Returned.name = Detached
        /\ (Len(stdout) >= 1 =>
              SubSeq(Plain(stdout[1]), 1, Len(Detached)) = Detached)

\* the upstream token of the claim
C7_Token(u) ==
    IF ~IsSome(u) THEN <<"U+26A1">>
    ELSE IF u[1][1] > 0 /\ u[1][2] > 0
        THEN <<"U+21F5">> \o Digits(u[1][1]) \o Digits(u[1][2])
    ELSE IF u[1][1] > 0 THEN <<"U+2193">> \o Digits(u[1][1])
    ELSE IF u[1][2] > 0 THEN <<"U+2191">> \o Digits(u[1][2])
    ELSE <<"U+2261">>

\* C7: the printed branch string ends with the upstream token of the claim
\* (both-ways arrow with ahead then behind, down arrow with ahead, up arrow with
\* behind, in-sync symbol, or the warning symbol), and the warning symbol is
\* printed exactly when upstream is absent.
C7_UpstreamToken ==
    Printed =>
        /\ Plain(stdout[1]) = Returned.name \o Plain(Unwrap(Local(Returned)))
                              \o C7_Token(Returned.upstream)
        /\ (Output[Len(Output)] = "U+26A1") <=> (Returned.upstream = None)

C7_Witness == Printed /\ Returned.upstream = Some(<<3, 10>>)

\* the rendering order of the claim: counter, then its letter
RenderOrder == <<
    <<"new_files", "N">>, <<"modifications_staged", "M">>, <<"renames_staged", "R">>,
    <<"deletions_staged", "D">>, <<"modifications", "M">>, <<"renames", "R">>,
    <<"deletions", "D">>, <<"untracked", "U">> >>
RECURSIVE C8_Rendering(_, _)
C8_Rendering(r, k) ==
    IF k > Len(RenderOrder) THEN <<>>
    ELSE (IF IsSome(r[RenderOrder[k][1]])
            THEN Digits(Unwrap(r[RenderOrder[k][1]])) \o <<RenderOrder[k][2]>>
            ELSE <<>>)
         \o C8_Rendering(r, k + 1)

\* C8: the printed status string is the concatenation of count and letter of
\* each present counter in the order N M R D (staged), M R D (worktree), U,
\* with nothing for an absent counter: the empty string when no entry was
\* classified, and 2N1U for two new staged files and one untracked file.
C8_StatusRendering ==
    Len(stdout) = 2 =>
        LET r == Unwrap(status).val IN
        /\ Plain(stdout[2]) = C8_Rendering(r, 1)
        /\ (flagged = 0 => stdout[2] = <<>>)
        /\ (r = [EmptyRepoStatus EXCEPT !["new_files"] = Some(2),
                                        !["untracked"] = Some(1)]
              => Plain(stdout[2]) = <<"2", "N", "1", "U">>)

C8_Witness ==
    /\ Len(stdout) = 2
    /\ Unwrap(status).val = [EmptyRepoStatus EXCEPT !["new_files"] = Some(2),
                                                    !["untracked"] = Some(1)]
    /\ Plain(stdout[2]) = <<"2", "N", "1", "U">>

\* C9: when repository discovery fails, for any reason, the program exits with
\* code 0, has written nothing, and has called neither analyzer.
C9_DiscoveryFailureIsSilent ==
    discover \in {"not_found", "error"} =>
        /\ pc = "exited"
        /\ exit = Some(0)
        /\ stderr = None
        /\ stdout = <<>>
        /\ invoked = {}

C9_Witness == discover = "error" /\ pc = "exited"

\* C10: the branch token is on standard output before the status analyzer is
\* called, so a failed status query aborts the process with exactly the branch
\* token written; an abort in the branch step leaves nothing written and the
\* status analyzer uncalled; and the status token only ever follows the branch
\* token.
C10_BranchPrintedBeforeStatus ==
    /\ ("status" \in invoked =>
          Len(stdout) >= 1 /\ stdout[1] = BranchToString(Returned))
    /\ (StatusFailed =>
          /\ stdout = <<BranchToString(Returned)>>
          /\ exit # Some(0)
          /\ (pc = "aborted" => exit = Some(101)))
    /\ (pc = "aborted" /\ ~StatusFailed => stdout = <<>> /\ "status" \notin invoked)
    /\ Len(stdout) <= 2
    /\ (Len(stdout) = 2 =>
          /\ stdout[1] = BranchToString(Returned)
          /\ stdout[2] = RepoStatusToString(Unwrap(status).val))

C10_Witness == pc = "aborted" /\ StatusFailed /\ Len(stdout) = 1

====
